---- MODULE Spec2Model ----
(***************************************************************************)
(* labm8.cache: TransientCache, JsonCache and FSCache                      *)
(* (src/labm8/cache.py), as a state machine of one Python process at a     *)
(* time, the JSON document of JsonCache and the directory of FSCache       *)
(* outliving the process.                                                  *)
(***************************************************************************)
EXTENDS Naturals, Sequences, FiniteSets, TLC

\* Bounds of the model.
MaxInst == 2      \* cache objects alive in one process
MaxVal == 2       \* distinct stored values / distinct file contents

VARIABLES
  variant,   \* the cache class the program uses: "Transient", "Json" or "FS"
  py3,       \* the interpreter: TRUE Python 3, FALSE Python 2 (the module runs on both, via six)
  proc,      \* "running", "exited" (in an orderly way) or "crashed"
  mem,       \* the TransientCache / JsonCache objects of the process, in construction order: their _data
  atexit,    \* the exit handlers registered, in registration order (indices into mem)
  doc,       \* the file at the JsonCache path
  rootdir,   \* whether the FSCache root directory exists
  files,     \* path -> content of the file there, 0 when nothing is there
  fsc,       \* whether the process holds an FSCache object
  getting,   \* the FSCache.get the process is in, between its test of the key and its lookup
  ev         \* the last call: its arguments, what it returned, what it raised

vars == <<variant, py3, proc, mem, atexit, doc, rootdir, files, fsc, getting, ev>>

----------------------------------------------------------------------------
\* Python values: a tag and the text of the value.
None == [t |-> "None", x |-> ""]
PyStr(s) == [t |-> "str", x |-> s]
PyInt(n) == [t |-> "int", x |-> ToString(n)]
PyPath(p) == [t |-> "path", x |-> p]
\* What an iterator yields, in the order it yields it.
PyItems(q) == [t |-> "items", x |-> q]

\* A dict, written as the sequence of its <<name, value>> fields in the order they were put in.
PyDict(q) == [t |-> "dict", x |-> q]

\* The keys the program uses: the integer 1 and the string "1".
Keys == {PyInt(1), PyStr("1")}
\* An FSCache key may be any value json.dumps takes (a dict is no key of a
\* Python dict): the program also uses {"a": 1, "b": 2}, built in either order.
KeyAB == PyDict(<< <<"a", PyInt(1)>>, <<"b", PyInt(2)>> >>)
KeyBA == PyDict(<< <<"b", PyInt(2)>>, <<"a", PyInt(1)>> >>)
\* A tuple and a list, written as the sequence of their elements: the program
\* also uses the keys (1, 2) and [1, 2].
PyTuple(q) == [t |-> "tuple", x |-> q]
PyList(q) == [t |-> "list", x |-> q]
KeyTuple == PyTuple(<<PyInt(1), PyInt(2)>>)
KeyList == PyList(<<PyInt(1), PyInt(2)>>)
FSKeys == Keys \cup {KeyAB, KeyBA, KeyTuple, KeyList}
\* The values it stores.
Values == {PyInt(n) : n \in 1..MaxVal}
\* The default arguments it passes to get().
Defaults == {None, PyInt(1)}

\* A Python dict: a function on the set of its keys.
EmptyDict == [k \in {} |-> None]
\* The orders a dict may iterate its keys in: one the caller cannot choose.
Orders(S) == {q \in [1..Cardinality(S) -> S] : \A k \in S : \E i \in 1..Cardinality(S) : q[i] = k}
DictSet(m, key, value) == [k \in (DOMAIN m) \cup {key} |-> IF k = key THEN value ELSE m[k]]
DictDel(m, key) == [k \in (DOMAIN m) \ {key} |-> m[k]]

\* What self._data holds: a dict, or the list [] that json.load returns for the document "[]".
Dict(m) == [kind |-> "dict", m |-> m]
EmptyList == [kind |-> "list", m |-> EmptyDict]

\* What a method did: the new self._data, the value returned, the exception raised ("" for none).
Outcome(data, ret, exc) == [data |-> data, ret |-> ret, exc |-> exc]

\* list[key]: a list index must be an integer, and [] has no index in range.
ListIndexError(key) == IF key.t = "int" THEN "IndexError" ELSE "TypeError"

----------------------------------------------------------------------------
\* TransientCache (JsonCache inherits every method but __init__).

\* key in self._data
TransientCache___contains__(data, key) == data.kind = "dict" /\ key \in DOMAIN data.m

\* A get that forgets its default argument.
TransientCache_get_NoDefault(data, key, default) ==
  IF data.kind = "dict" /\ key \in DOMAIN data.m
  THEN Outcome(data, data.m[key], "")
  ELSE Outcome(data, None, "")

TransientCache_get(data, key, default) ==
  IF data.kind = "dict" /\ key \in DOMAIN data.m
  THEN Outcome(data, data.m[key], "")
  ELSE Outcome(data, default, "")

\* A clear that leaves the entries.
TransientCache_clear_Keeps(data) == Outcome(data, None, "")

TransientCache_clear(data) ==
  IF data.kind = "dict" THEN Outcome(Dict(EmptyDict), None, "")
  ELSE IF py3 THEN Outcome(data, None, "")
  ELSE Outcome(data, None, "AttributeError")

\* Cache.items(), which FSCache inherits.
Cache_items(data) == Outcome(data, None, "NotImplementedError")

\* six.iteritems(self._data), the dict iterating in the order q; a list has no items().
TransientCache_items(data, q) ==
  IF data.kind = "dict"
  THEN Outcome(data, PyItems([i \in 1..Len(q) |-> <<q[i], data.m[q[i]]>>]), "")
  ELSE Outcome(data, None, "AttributeError")

TransientCache___getitem__(data, key) ==
  IF data.kind = "dict"
  THEN IF key \in DOMAIN data.m THEN Outcome(data, data.m[key], "")
       ELSE Outcome(data, None, "KeyError")
  ELSE Outcome(data, None, ListIndexError(key))

TransientCache___setitem__(data, key, value) ==
  IF data.kind = "dict" THEN Outcome(Dict(DictSet(data.m, key, value)), value, "")
  ELSE Outcome(data, None, ListIndexError(key))

\* A lenient delete: self._data.pop(key, None).
TransientCache___delitem___Lenient(data, key) ==
  IF data.kind = "dict" THEN Outcome(Dict(DictDel(data.m, key)), None, "")
  ELSE Outcome(data, None, ListIndexError(key))

TransientCache___delitem__(data, key) ==
  IF data.kind = "dict"
  THEN IF key \in DOMAIN data.m THEN Outcome(Dict(DictDel(data.m, key)), None, "")
       ELSE Outcome(data, None, "KeyError")
  ELSE Outcome(data, None, ListIndexError(key))

\* A seeding that keeps the entry it finds: self._data.setdefault(key, val).
Populate_Keeps(data, base) ==
  IF base = None THEN Outcome(data, None, "")
  ELSE IF base.kind # "dict" THEN Outcome(data, None, "AttributeError")
  ELSE IF DOMAIN base.m = {} THEN Outcome(data, None, "")
  ELSE IF data.kind # "dict" THEN Outcome(data, None, "TypeError")
  ELSE Outcome(Dict([k \in (DOMAIN data.m) \cup (DOMAIN base.m) |->
                      IF k \in DOMAIN data.m THEN data.m[k] ELSE base.m[k]]), None, "")

\* for key,val in basecache.items(): self._data[key] = val
\* base is None or the _data of the seed cache; six.iteritems of a list raises.
Populate(data, base) ==
  IF base = None THEN Outcome(data, None, "")
  ELSE IF base.kind # "dict" THEN Outcome(data, None, "AttributeError")
  ELSE IF DOMAIN base.m = {} THEN Outcome(data, None, "")
  ELSE IF data.kind # "dict" THEN Outcome(data, None, "TypeError")
  ELSE Outcome(Dict([k \in (DOMAIN data.m) \cup (DOMAIN base.m) |->
                      IF k \in DOMAIN base.m THEN base.m[k] ELSE data.m[k]]), None, "")

\* An __init__ that takes no notice of basecache.
TransientCache___init___Empty(base) == Outcome(Dict(EmptyDict), None, "")

TransientCache___init__(base) == Populate(Dict(EmptyDict), base)

----------------------------------------------------------------------------
\* The json module, on the values above.

\* The file at the path: absent, text that is no JSON, the document "[]", or an
\* object, written as the sequence of its <<name, value>> members in file order.
Absent == [kind |-> "absent", pairs |-> <<>>]
Invalid == [kind |-> "invalid", pairs |-> <<>>]
ListDoc == [kind |-> "list", pairs |-> <<>>]
ObjectDoc(pairs) == [kind |-> "object", pairs |-> pairs]

\* sorted() on keys: integers before strings (Python 2), strings in code-point order.
KeyOrder == <<PyInt(1), PyStr("1")>>
SortedKeys(m) == SelectSeq(KeyOrder, LAMBDA k : k \in DOMAIN m)
\* Python 3 cannot order an int and a str: sorted() raises TypeError.
Unorderable(m) == \E k1, k2 \in DOMAIN m : k1.t # k2.t

\* json.dump(data, file, sort_keys=True, ...) into a file just opened with "w":
\* a dict key that is an int is written as its decimal text. When sorted() raises
\* the file is left truncated.
json_dump(data) ==
  IF data.kind = "list" THEN [doc |-> ListDoc, exc |-> ""]
  ELSE IF py3 /\ Unorderable(data.m) THEN [doc |-> Invalid, exc |-> "TypeError"]
  ELSE LET ks == SortedKeys(data.m)
       IN [doc |-> ObjectDoc([i \in 1..Len(ks) |-> <<ks[i].x, data.m[ks[i]]>>]), exc |-> ""]

\* json.load(file): member names become str keys; of two members with one name the later wins.
json_load(d) ==
  IF d.kind = "invalid" THEN Outcome(Dict(EmptyDict), None, "ValueError")
  ELSE IF d.kind = "list" THEN Outcome(EmptyList, None, "")
  ELSE LET names == {d.pairs[i][1] : i \in 1..Len(d.pairs)}
           last(n) == CHOOSE i \in 1..Len(d.pairs) :
                         /\ d.pairs[i][1] = n
                         /\ \A j \in 1..Len(d.pairs) : d.pairs[j][1] = n => j <= i
       IN Outcome(Dict([k \in {PyStr(n) : n \in names} |-> d.pairs[last(k.x)][2]]), None, "")

----------------------------------------------------------------------------
\* JsonCache.

\* JsonCache.__init__(path, basecache) up to the registration of the exit handler:
\* the _data it builds, or the exception that ends it.
JsonCache___init__(d, base) ==
  LET loaded == IF d.kind # "absent" THEN json_load(d) ELSE Outcome(Dict(EmptyDict), None, "")
  IN IF loaded.exc # "" THEN loaded ELSE Populate(loaded.data, base)

\* JsonCache.write()
JsonCache_write(data) == json_dump(data)

\* Exit handlers that run first registered first.
RECURSIVE atexit_run_FIFO(_, _, _)
atexit_run_FIFO(hs, datas, d) ==
  IF hs = <<>> THEN d
  ELSE atexit_run_FIFO(Tail(hs), datas, JsonCache_write(datas[Head(hs)]).doc)

\* The exit handlers run last registered first; an exception in one is reported
\* and the rest still run. The document left after handlers hs ran on document d.
RECURSIVE atexit_run(_, _, _)
atexit_run(hs, datas, d) ==
  IF hs = <<>> THEN d
  ELSE atexit_run(SubSeq(hs, 1, Len(hs) - 1), datas, JsonCache_write(datas[hs[Len(hs)]]).doc)

----------------------------------------------------------------------------
\* The filesystem, as labm8.fs and shutil act on it.

Root == "/cache"
\* The files the caller hands to FSCache.
UserPaths == {"/tmp/src.bin", "/tmp/other.bin"}

fs_path(dir, name) == dir \o "/" \o name
\* sorted() on the field names of a dict key.
FieldOrder == <<"a", "b">>
SortedFields(q) ==
  LET names == SelectSeq(FieldOrder, LAMBDA n : \E i \in 1..Len(q) : q[i][1] = n)
  IN [j \in 1..Len(names) |-> q[CHOOSE i \in 1..Len(q) : q[i][1] = names[j]]]
\* The members of an object in the text json.dumps writes.
RECURSIVE json_members(_)
json_members(q) ==
  IF q = <<>> THEN ""
  ELSE "\"" \o q[1][1] \o "\": " \o q[1][2].x
       \o (IF Len(q) > 1 THEN ", " \o json_members(Tail(q)) ELSE "")
\* The elements of an array in the text json.dumps writes.
RECURSIVE json_elements(_)
json_elements(q) ==
  IF q = <<>> THEN ""
  ELSE q[1].x \o (IF Len(q) > 1 THEN ", " \o json_elements(Tail(q)) ELSE "")
\* json.dumps(key): a dict in the order of its fields.
json_dumps_Unsorted(key) ==
  IF key.t = "str" THEN "\"" \o key.x \o "\""
  ELSE IF key.t = "dict" THEN "{" \o json_members(key.x) \o "}"
  ELSE IF key.t \in {"tuple", "list"} THEN "[" \o json_elements(key.x) \o "]"
  ELSE key.x
\* json.dumps(key, sort_keys=True): a tuple is written as an array, like a list.
json_dumps(key) ==
  IF key.t = "str" THEN "\"" \o key.x \o "\""
  ELSE IF key.t = "dict" THEN "{" \o json_members(SortedFields(key.x)) \o "}"
  ELSE IF key.t \in {"tuple", "list"} THEN "[" \o json_elements(key.x) \o "]"
  ELSE key.x
\* The hexadecimal SHA-1 digest of a text, kept symbolic: different texts, different digests.
crypto_sha1(text) == "sha1(" \o text \o ")"

\* A _keypath that dumps the key without sort_keys.
FSCache__keypath_Unsorted(key) == fs_path(Root, crypto_sha1(json_dumps_Unsorted(key)))

\* FSCache._keypath(key)
FSCache__keypath(key) == fs_path(Root, crypto_sha1(json_dumps(key)))

CachePaths == {FSCache__keypath(k) : k \in FSKeys}
\* A name in the directory that is the digest of no key, as an index file would have.
IndexPath == fs_path(Root, "index")
\* What may be in the directory.
RootPaths == CachePaths \cup {IndexPath}
Paths == UserPaths \cup RootPaths
NoFiles == [p \in Paths |-> 0]

\* The filesystem state the fs functions read and return.
FS(dir, fls) == [rootdir |-> dir, files |-> fls]

fs_exists(F, p) == IF p = Root THEN F.rootdir ELSE F.files[p] # 0
\* fs.mkdir(path): creates the directory unless it is there.
fs_mkdir(F, p) == IF p = Root THEN FS(TRUE, F.files) ELSE F
\* fs.rm(path): removes a file, or a directory with all that is in it; nothing there, nothing done.
fs_rm(F, p) ==
  IF p = Root THEN FS(FALSE, [q \in Paths |-> IF q \in RootPaths THEN 0 ELSE F.files[q]])
  ELSE FS(F.rootdir, [F.files EXCEPT ![p] = 0])
\* fs.mv(src, dst): shutil.move; it cannot create dst in a directory that does not exist.
fs_mv(F, src, dst) ==
  IF ~fs_exists(F, src) THEN Outcome(F, None, "File404")
  ELSE IF dst \in RootPaths /\ ~F.rootdir THEN Outcome(F, None, "IOError")
  ELSE IF src = dst THEN Outcome(F, None, "")
  ELSE Outcome(FS(F.rootdir, [F.files EXCEPT ![dst] = F.files[src], ![src] = 0]), None, "")

----------------------------------------------------------------------------
\* FSCache.

\* An __init__ that starts from an empty directory.
FSCache___init___Fresh(F) == fs_mkdir(fs_rm(F, Root), Root)

FSCache___init__(F) == fs_mkdir(F, Root)

FSCache_clear(F) == fs_rm(F, Root)

FSCache___getitem__(F, key) ==
  LET path == FSCache__keypath(key)
  IN IF fs_exists(F, path) THEN Outcome(F, PyPath(path), "") ELSE Outcome(F, None, "KeyError")

\* A __setitem__ without its check of value.
FSCache___setitem___Unchecked(F, key, value) == fs_mv(F, value, FSCache__keypath(key))

\* A __setitem__ that also keeps an index file in the directory.
FSCache___setitem___Indexed(F, key, value) ==
  IF ~fs_exists(F, value) THEN Outcome(F, None, "ValueError")
  ELSE LET r == fs_mv(F, value, FSCache__keypath(key))
       IN IF r.exc # "" THEN r
          ELSE Outcome(FS(r.data.rootdir, [r.data.files EXCEPT ![IndexPath] = 1]), None, "")

FSCache___setitem__(F, key, value) ==
  IF ~fs_exists(F, value) THEN Outcome(F, None, "ValueError")
  ELSE fs_mv(F, value, FSCache__keypath(key))

\* A __contains__ that looks for the directory, not for the file.
FSCache___contains___Root(F, key) == fs_exists(F, Root)

FSCache___contains__(F, key) == fs_exists(F, FSCache__keypath(key))

\* A __delitem__ that removes the directory with the file.
FSCache___delitem___All(F, key) ==
  LET path == FSCache__keypath(key)
  IN IF fs_exists(F, path) THEN Outcome(fs_rm(F, Root), None, "") ELSE Outcome(F, None, "KeyError")

FSCache___delitem__(F, key) ==
  LET path == FSCache__keypath(key)
  IN IF fs_exists(F, path) THEN Outcome(fs_rm(F, path), None, "") ELSE Outcome(F, None, "KeyError")

FSCache_get(F, key, default) ==
  IF FSCache___contains__(F, key) THEN FSCache___getitem__(F, key) ELSE Outcome(F, default, "")

----------------------------------------------------------------------------
\* The state machine.

\* The record of a call: op the method, inst the object (0 for the FSCache), key and
\* arg its arguments, ret and exc what it returned and raised; c is, for
\* FSCache.__setitem__, the content of the file arg named when the call was made
\* (0: no file), for clear, the number of entries the cache held and, for write
\* and exit, the object whose write() was the call before and raised nothing (0: none).
Call(op, inst, key, arg, c, ret, exc) ==
  [op |-> op, inst |-> inst, key |-> key, arg |-> arg, c |-> c, ret |-> ret, exc |-> exc]

Disk == FS(rootdir, files)
InMemory == variant \in {"Transient", "Json"}
\* No get is under way / the get(key, default) that is.
NoGet == [on |-> FALSE, key |-> None, default |-> None]
Getting(key, default) == [on |-> TRUE, key |-> key, default |-> default]
\* The process is running, and not inside a call: it is single-threaded.
Running == proc = "running" /\ ~getting.on

Init ==
  /\ variant \in {"Transient", "Json", "FS"}
  /\ py3 \in (IF variant = "Json" THEN BOOLEAN ELSE {TRUE})
  /\ proc = "running"
  /\ mem = <<>>
  /\ atexit = <<>>
  /\ doc = Absent
  /\ rootdir = FALSE
  /\ files = NoFiles
  /\ fsc = FALSE
  /\ getting = NoGet
  /\ ev = Call("start", 0, None, None, 0, None, "")

\* The _data of the seed: b = 0 stands for basecache=None, b > 0 for the b-th object.
Base(b) == IF b = 0 THEN None ELSE mem[b]

\* TransientCache(basecache)
NewTransient(b) ==
  /\ variant = "Transient" /\ Running /\ Len(mem) < MaxInst
  /\ LET r == TransientCache___init__(Base(b))
     IN /\ mem' = Append(mem, r.data)
        /\ ev' = Call("__init__", Len(mem) + 1, None, PyInt(b), 0, None, r.exc)
  /\ UNCHANGED <<getting, variant, py3, proc, atexit, doc, rootdir, files, fsc>>

\* A JsonCache(path, basecache) that registers its exit handler before it loads the file.
NewJson_RegistersFirst(b) ==
  /\ variant = "Json" /\ Running /\ Len(mem) < MaxInst
  /\ LET r == JsonCache___init__(doc, Base(b))
     IN /\ mem' = Append(mem, IF r.exc = "" THEN r.data ELSE Dict(EmptyDict))
        /\ atexit' = Append(atexit, Len(mem) + 1)
        /\ ev' = Call("__init__", IF r.exc = "" THEN Len(mem) + 1 ELSE 0, None, PyInt(b), 0, None, r.exc)
  /\ UNCHANGED <<getting, variant, py3, proc, doc, rootdir, files, fsc>>

\* JsonCache(path, basecache): an exception leaves no object and no exit handler.
NewJson(b) ==
  /\ variant = "Json" /\ Running /\ Len(mem) < MaxInst
  /\ LET r == JsonCache___init__(doc, Base(b))
     IN IF r.exc = ""
        THEN /\ mem' = Append(mem, r.data)
             /\ atexit' = Append(atexit, Len(mem) + 1)
             /\ ev' = Call("__init__", Len(mem) + 1, None, PyInt(b), 0, None, "")
        ELSE /\ UNCHANGED <<mem, atexit>>
             /\ ev' = Call("__init__", 0, None, PyInt(b), 0, None, r.exc)
  /\ UNCHANGED <<getting, variant, py3, proc, doc, rootdir, files, fsc>>

\* A method of the i-th object that reads and writes nothing but its _data.
Method(i, op, key, arg, c, r) ==
  /\ mem' = [mem EXCEPT ![i] = r.data]
  /\ ev' = Call(op, i, key, arg, c, r.ret, r.exc)
  /\ UNCHANGED <<getting, variant, py3, proc, atexit, doc, rootdir, files, fsc>>

Get(i, key, default) ==
  /\ InMemory /\ Running /\ i \in 1..Len(mem)
  /\ Method(i, "get", key, default, 0, TransientCache_get(mem[i], key, default))

Clear(i) ==
  /\ InMemory /\ Running /\ i \in 1..Len(mem)
  /\ Method(i, "clear", None, None, Cardinality(DOMAIN mem[i].m), TransientCache_clear(mem[i]))

Items(i) ==
  /\ InMemory /\ Running /\ i \in 1..Len(mem)
  /\ \E q \in Orders(DOMAIN mem[i].m) :
       Method(i, "items", None, None, 0, TransientCache_items(mem[i], q))

GetItem(i, key) ==
  /\ InMemory /\ Running /\ i \in 1..Len(mem)
  /\ Method(i, "__getitem__", key, None, 0, TransientCache___getitem__(mem[i], key))

\* A __setitem__ that writes the file through.
SetItem_WriteThrough(i, key, value) ==
  /\ InMemory /\ Running /\ i \in 1..Len(mem)
  /\ LET r == TransientCache___setitem__(mem[i], key, value)
     IN /\ mem' = [mem EXCEPT ![i] = r.data]
        /\ doc' = IF variant = "Json" THEN JsonCache_write(r.data).doc ELSE doc
        /\ ev' = Call("__setitem__", i, key, value, 0, r.ret, r.exc)
  /\ UNCHANGED <<getting, variant, py3, proc, atexit, rootdir, files, fsc>>

SetItem(i, key, value) ==
  /\ InMemory /\ Running /\ i \in 1..Len(mem)
  /\ Method(i, "__setitem__", key, value, 0, TransientCache___setitem__(mem[i], key, value))

\* A __contains__ that takes the entry out to look at it: self._data.pop(key, None).
Contains_Popping(i, key) ==
  /\ InMemory /\ Running /\ i \in 1..Len(mem)
  /\ Method(i, "__contains__", key, None, 0,
            Outcome(IF mem[i].kind = "dict" THEN Dict(DictDel(mem[i].m, key)) ELSE mem[i],
                    TransientCache___contains__(mem[i], key), ""))

Contains(i, key) ==
  /\ InMemory /\ Running /\ i \in 1..Len(mem)
  /\ Method(i, "__contains__", key, None, 0,
            Outcome(mem[i], TransientCache___contains__(mem[i], key), ""))

DelItem(i, key) ==
  /\ InMemory /\ Running /\ i \in 1..Len(mem)
  /\ Method(i, "__delitem__", key, None, 0, TransientCache___delitem__(mem[i], key))

\* The object whose write() was the last call and raised nothing, 0 if there is none.
JustWritten == IF ev.op = "write" /\ ev.exc = "" THEN ev.inst ELSE 0

\* A write() that opens the file with "a": what it dumps comes after what was there.
Write_Appending(i) ==
  /\ variant = "Json" /\ Running /\ i \in 1..Len(mem)
  /\ LET r == JsonCache_write(mem[i])
     IN /\ doc' = IF doc.kind = "absent" THEN r.doc ELSE Invalid
        /\ ev' = Call("write", i, None, None, JustWritten, None, r.exc)
  /\ UNCHANGED <<getting, variant, py3, proc, mem, atexit, rootdir, files, fsc>>

\* JsonCache.write()
Write(i) ==
  /\ variant = "Json" /\ Running /\ i \in 1..Len(mem)
  /\ LET r == JsonCache_write(mem[i])
     IN /\ doc' = r.doc
        /\ ev' = Call("write", i, None, None, JustWritten, None, r.exc)
  /\ UNCHANGED <<getting, variant, py3, proc, mem, atexit, rootdir, files, fsc>>

\* The interpreter exits in an orderly way and runs the exit handlers.
Exit ==
  /\ Running
  /\ proc' = "exited"
  /\ doc' = atexit_run(atexit, mem, doc)
  /\ ev' = Call("exit", 0, None, None, JustWritten, None, "")
  /\ UNCHANGED <<getting, variant, py3, mem, atexit, rootdir, files, fsc>>

\* The program is started again: no object of the last process is left, the files are.
Restart ==
  /\ proc \in {"exited", "crashed"}
  /\ proc' = "running"
  /\ mem' = <<>>
  /\ atexit' = <<>>
  /\ fsc' = FALSE
  /\ ev' = Call("start", 0, None, None, 0, None, "")
  /\ UNCHANGED <<getting, variant, py3, doc, rootdir, files>>

\* FSCache(root)
FSNew ==
  /\ variant = "FS" /\ Running
  /\ fsc' = TRUE
  /\ rootdir' = FSCache___init__(Disk).rootdir
  /\ files' = FSCache___init__(Disk).files
  /\ ev' = Call("__init__", 0, None, None, 0, None, "")
  /\ UNCHANGED <<getting, variant, py3, proc, mem, atexit, doc>>

\* A method of the FSCache object.
FSMethod(op, key, arg, c, r) ==
  /\ rootdir' = r.data.rootdir
  /\ files' = r.data.files
  /\ ev' = Call(op, 0, key, arg, c, r.ret, r.exc)
  /\ UNCHANGED <<getting, variant, py3, proc, mem, atexit, doc, fsc>>

FSClear ==
  /\ variant = "FS" /\ Running /\ fsc
  /\ FSMethod("clear", None, None, Cardinality({p \in CachePaths : files[p] # 0}), Outcome(FSCache_clear(Disk), None, ""))

FSItems ==
  /\ variant = "FS" /\ Running /\ fsc
  /\ FSMethod("items", None, None, 0, Cache_items(Disk))

FSGetItem(key) ==
  /\ variant = "FS" /\ Running /\ fsc
  /\ FSMethod("__getitem__", key, None, 0, FSCache___getitem__(Disk, key))

\* value is a path of the caller's.
FSSetItem(key, value) ==
  /\ variant = "FS" /\ Running /\ fsc
  /\ FSMethod("__setitem__", key, PyPath(value), files[value], FSCache___setitem__(Disk, key, value))

FSContains(key) ==
  /\ variant = "FS" /\ Running /\ fsc
  /\ FSMethod("__contains__", key, None, 0, Outcome(Disk, FSCache___contains__(Disk, key), ""))

FSDelItem(key) ==
  /\ variant = "FS" /\ Running /\ fsc
  /\ FSMethod("__delitem__", key, None, 0, FSCache___delitem__(Disk, key))

\* FSCache.get up to its test "key in self": without the key it returns default.
FSGet(key, default) ==
  /\ variant = "FS" /\ Running /\ fsc
  /\ IF FSCache___contains__(Disk, key)
     THEN /\ getting' = Getting(key, default)
          /\ ev' = Call("get.__contains__", 0, key, default, 0, TRUE, "")
     ELSE /\ getting' = NoGet
          /\ ev' = Call("get", 0, key, default, 0, default, "")
  /\ UNCHANGED <<variant, py3, proc, mem, atexit, doc, rootdir, files, fsc>>

\* FSCache.get from there: "return self[key]", on the files as they are now.
FSGetReturn ==
  /\ variant = "FS" /\ proc = "running" /\ getting.on
  /\ LET r == FSCache___getitem__(Disk, getting.key)
     IN ev' = Call("get", 0, getting.key, getting.default, 0, r.ret, r.exc)
  /\ getting' = NoGet
  /\ UNCHANGED <<variant, py3, proc, mem, atexit, doc, rootdir, files, fsc>>

\* The caller writes a file of its own, to hand it to the cache.
UserWrite(p, c) ==
  /\ variant = "FS" /\ Running
  /\ files' = [files EXCEPT ![p] = c]
  /\ ev' = Call("user_write", 0, None, PyPath(p), c, None, "")
  /\ UNCHANGED <<getting, variant, py3, proc, mem, atexit, doc, rootdir, fsc>>

Next ==
  \/ \E b \in 0..Len(mem) : NewTransient(b)
  \/ \E b \in 0..Len(mem) : NewJson(b)
  \/ \E i \in 1..MaxInst, key \in Keys, default \in Defaults : Get(i, key, default)
  \/ \E i \in 1..MaxInst : Clear(i)
  \/ \E i \in 1..MaxInst : Items(i)
  \/ \E i \in 1..MaxInst, key \in Keys : GetItem(i, key)
  \/ \E i \in 1..MaxInst, key \in Keys, value \in Values : SetItem(i, key, value)
  \/ \E i \in 1..MaxInst, key \in Keys : Contains(i, key)
  \/ \E i \in 1..MaxInst, key \in Keys : DelItem(i, key)
  \/ \E i \in 1..MaxInst : Write(i)
  \/ Exit
  \/ Restart
  \/ FSNew
  \/ FSClear
  \/ FSItems
  \/ \E key \in FSKeys : FSGetItem(key)
  \/ \E key \in FSKeys, value \in UserPaths : FSSetItem(key, value)
  \/ \E key \in FSKeys : FSContains(key)
  \/ \E key \in FSKeys : FSDelItem(key)
  \/ \E key \in FSKeys, default \in Defaults : FSGet(key, default)
  \/ FSGetReturn
  \/ \E p \in UserPaths, c \in 1..MaxVal : UserWrite(p, c)

Spec == Init /\ [][Next]_vars

----------------------------------------------------------------------------
\* The same program with other actors at its files.

\* Something else writes a file at the cache path of a key.
ExtCreate(key, c) ==
  /\ variant = "FS" /\ rootdir
  /\ files' = [files EXCEPT ![FSCache__keypath(key)] = c]
  /\ ev' = Call("ext_create", 0, key, None, c, None, "")
  /\ UNCHANGED <<getting, variant, py3, proc, mem, atexit, doc, rootdir, fsc>>

\* Something else removes the file at the cache path of a key.
ExtRemove(key) ==
  /\ variant = "FS" /\ files[FSCache__keypath(key)] # 0
  /\ files' = [files EXCEPT ![FSCache__keypath(key)] = 0]
  /\ ev' = Call("ext_remove", 0, key, None, files[FSCache__keypath(key)], None, "")
  /\ UNCHANGED <<getting, variant, py3, proc, mem, atexit, doc, rootdir, fsc>>

\* Something else leaves a file at the JsonCache path that is no JSON, or the document "[]".
ExtWriteDoc(d) ==
  /\ variant = "Json"
  /\ doc' = d
  /\ ev' = Call("ext_write_doc", 0, None, None, 0, None, "")
  /\ UNCHANGED <<getting, variant, py3, proc, mem, atexit, rootdir, files, fsc>>

NextExt ==
  \/ Next
  \/ \E key \in FSKeys, c \in 1..MaxVal : ExtCreate(key, c)
  \/ \E key \in FSKeys : ExtRemove(key)
  \/ \E d \in {Invalid, ListDoc} : ExtWriteDoc(d)

SpecExt == Init /\ [][NextExt]_vars

----------------------------------------------------------------------------
\* The same program with a process that may be killed: no exit handler runs.

\* The process is killed between two calls.
Crash ==
  /\ Running
  /\ proc' = "crashed"
  /\ ev' = Call("crash", 0, None, None, 0, None, "")
  /\ UNCHANGED <<getting, variant, py3, mem, atexit, doc, rootdir, files, fsc>>

\* The process is killed inside write() of the i-th object, after open(self.path, "w")
\* has truncated the file: part of the text json.dump writes has reached the
\* file (no JSON document), or all of it.
CrashInWrite(i, whole) ==
  /\ variant = "Json" /\ Running /\ i \in 1..Len(mem)
  /\ proc' = "crashed"
  /\ doc' = IF whole THEN JsonCache_write(mem[i]).doc ELSE Invalid
  /\ ev' = Call("crash_in_write", i, None, None, 0, None, "")
  /\ UNCHANGED <<getting, variant, py3, mem, atexit, rootdir, files, fsc>>

NextCrash ==
  \/ Next
  \/ Crash
  \/ \E i \in 1..MaxInst, whole \in BOOLEAN : CrashInWrite(i, whole)

SpecCrash == Init /\ [][NextCrash]_vars

----------------------------------------------------------------------------
\* Properties.

\* The cache objects of the process: the index in mem, 0 for the FSCache.
Stores == IF InMemory THEN 1..Len(mem) ELSE IF fsc THEN {0} ELSE {}
\* key in cache, for the objects m and the filesystem F
HasIn(m, F, s, key) ==
  IF InMemory THEN TransientCache___contains__(m[s], key) ELSE FSCache___contains__(F, key)
Has(s, key) == HasIn(mem, Disk, s, key)
\* cache.get(key, default)
Fetch(s, key, default) ==
  IF InMemory THEN TransientCache_get(mem[s], key, default) ELSE FSCache_get(Disk, key, default)
\* The last call was method op of the cache (not a step of the environment).
Called(op) == ev.op = op /\ ev.inst \in Stores

\* C1: in every variant, right after set(k, v) a get(k) returns the value just set:
\* v itself for TransientCache and JsonCache and, for FSCache given an existing
\* file, the cache path of k, holding the content of the file moved in.
C1_SetThenGet ==
  (Called("__setitem__") /\ (variant = "FS" => ev.c # 0)) =>
    LET g == Fetch(ev.inst, ev.key, None)
    IN /\ g.exc = ""
       /\ IF variant = "FS"
          THEN g.ret = PyPath(FSCache__keypath(ev.key)) /\ files[FSCache__keypath(ev.key)] = ev.c
          ELSE g.ret = ev.arg

\* C2: in every variant delete(k) raises KeyError exactly when k is not in the
\* cache in the state it is called in, raises nothing else, leaves the cache as
\* it was when it raises, and leaves k out of the cache in any case: so a delete
\* after a set makes contains(k) false and a second delete raises KeyError.
C2_StrictDelete ==
  [][ (ev'.op = "__delitem__") =>
        /\ (ev'.exc = "KeyError") <=> ~Has(ev'.inst, ev'.key)
        /\ ev'.exc \in {"", "KeyError"}
        /\ ~HasIn(mem', Disk', ev'.inst, ev'.key)
        /\ ev'.exc = "KeyError" => UNCHANGED <<mem, rootdir, files>> ]_vars

\* A delete of a key that is not there has raised KeyError.
C2_Witness == Called("__delitem__") /\ ev.exc = "KeyError" /\ ~Has(ev.inst, ev.key)

\* C3: in every variant and every reachable state, get(k, X) for a key k that is
\* not in the cache returns X (None included) and raises nothing.
C3_GetDefault ==
  /\ \A s \in Stores, key \in Keys, default \in Defaults :
       ~Has(s, key) => Fetch(s, key, default).ret = default /\ Fetch(s, key, default).exc = ""
  /\ Called("get") => ev.exc = "" /\ (~Has(ev.inst, ev.key) => ev.ret = ev.arg)

\* get(k, 1) on a cache without k has returned 1.
C3_Witness == Called("get") /\ ~Has(ev.inst, ev.key) /\ ev.arg = PyInt(1) /\ ev.ret = PyInt(1)

\* C4: in every variant, when clear() has returned no key is in the cache and
\* get returns the default for every key; and a key that is not in a cache comes
\* into it by a set of that key on that cache only.
C4_ClearEmpties ==
  /\ [](Called("clear") /\ ev.exc = "" =>
          \A key \in Keys : ~Has(ev.inst, key) /\ Fetch(ev.inst, key, None).ret = None)
  /\ [][ \A s \in Stores, key \in Keys :
           (s \in Stores' /\ ~Has(s, key) /\ Has(s, key)') =>
             (ev'.op = "__setitem__" /\ ev'.inst = s /\ ev'.key = key) ]_vars

\* clear() has returned on a cache that held entries.
C4_Witness == Called("clear") /\ ev.exc = "" /\ ev.c > 0 /\ \A key \in Keys : ~Has(ev.inst, key)

\* C5: FSCache.set(k, path) with a file at path leaves nothing at path, the
\* content of that file at the cache path of k, and k in the cache.
C5_SetMovesFile ==
  (variant = "FS" /\ Called("__setitem__") /\ ev.c # 0) =>
    /\ files[ev.arg.x] = 0
    /\ files[FSCache__keypath(ev.key)] = ev.c
    /\ FSCache___contains__(Disk, ev.key)

\* C6: FSCache.set(k, path) with no file at path raises ValueError and changes
\* nothing: not the directory, not a file in it, not a file elsewhere.
C6_InvalidValue ==
  [][ (variant = "FS" /\ ev'.op = "__setitem__" /\ files[ev'.arg.x] = 0) =>
        /\ ev'.exc = "ValueError"
        /\ UNCHANGED <<rootdir, files, fsc>> ]_vars

\* set(k, path) with no file at path has raised ValueError, k being in the cache.
C6_Witness ==
  variant = "FS" /\ Called("__setitem__") /\ ev.exc = "ValueError" /\ Has(0, ev.key)

\* C7: for the FSCache, whatever the cache and other actors did to the files of
\* the directory, k is in the cache exactly when a file is at the cache path of
\* k: contains answers so, and get returns the path or the default accordingly.
C7_PresenceIsFile ==
  /\ \A key \in Keys :
       LET there == rootdir /\ files[FSCache__keypath(key)] # 0
       IN /\ FSCache___contains__(Disk, key) <=> there
          /\ FSCache_get(Disk, key, None).ret =
               IF there THEN PyPath(FSCache__keypath(key)) ELSE None
  /\ (variant = "FS" /\ Called("__contains__")) =>
       (ev.ret <=> files[FSCache__keypath(ev.key)] # 0)

\* Another actor has removed the file of a key, and the key is not in the cache.
C7_Witness ==
  variant = "FS" /\ fsc /\ ev.op = "ext_remove" /\ ev.c # 0 /\ ~FSCache___contains__(Disk, ev.key)

\* C8: a JsonCache constructed, without seed, right after a write() of another
\* holds exactly the entries that one held: the same keys with the same values.
C8_RoundTrip ==
  [][ (variant = "Json" /\ ev.op = "write" /\ ev.exc = ""
       /\ ev'.op = "__init__" /\ ev'.arg = PyInt(0) /\ ev'.exc = "") =>
        mem'[ev'.inst] = mem[ev.inst] ]_vars

\* C9: constructing a JsonCache on a file that is no JSON, or is JSON but no
\* object, raises.
C9_CorruptStore ==
  (variant = "Json" /\ ev.op = "__init__" /\ doc.kind \in {"invalid", "list"}) => ev.exc # ""

\* C10: after an orderly exit every JsonCache of the process was flushed by one
\* exit handler, and the document on disk decodes to its content.
C10_ExitFlush ==
  (variant = "Json" /\ proc = "exited") =>
    \A i \in 1..Len(mem) :
      /\ Cardinality({j \in 1..Len(atexit) : atexit[j] = i}) = 1
      /\ doc.kind = "object"
      /\ json_load(doc).data = mem[i]

\* The seed a constructor call was given: the object its argument numbers.
SeedOf(e) == CHOOSE b \in 1..MaxInst : e.arg = PyInt(b)

\* C11: a JsonCache constructed on an existing document with a seed holds the
\* entries of the document overlaid by those of the seed: every key of the seed
\* with the seed's value, every other key of the document with the document's
\* value, and no other key.
C11_SeedOverlay ==
  [][ (variant = "Json" /\ ev'.op = "__init__" /\ ev'.arg # PyInt(0) /\ doc.kind = "object") =>
        /\ ev'.exc = ""
        /\ LET d == json_load(doc).data.m
               s == mem[SeedOf(ev')].m
               r == mem'[ev'.inst].m
           IN /\ DOMAIN r = (DOMAIN d) \cup (DOMAIN s)
              /\ \A k \in DOMAIN s : r[k] = s[k]
              /\ \A k \in (DOMAIN d) \ (DOMAIN s) : r[k] = d[k] ]_vars

\* A JsonCache was constructed with a seed holding "1" on a document holding
\* "1" with another value, and holds the seed's value.
C11_Witness ==
  /\ variant = "Json" /\ ev.op = "__init__" /\ ev.arg # PyInt(0) /\ ev.exc = ""
  /\ doc.kind = "object"
  /\ PyStr("1") \in DOMAIN json_load(doc).data.m
  /\ PyStr("1") \in DOMAIN mem[SeedOf(ev)].m
  /\ json_load(doc).data.m[PyStr("1")] # mem[SeedOf(ev)].m[PyStr("1")]
  /\ mem[ev.inst].m[PyStr("1")] = mem[SeedOf(ev)].m[PyStr("1")]

\* C12: when FSCache.clear() has returned, the root directory exists and is
\* empty, and the cache is usable as it is: a set(k, p) with a file at p
\* succeeds and brings k into the cache.
C12_ClearRecreatesRoot ==
  (variant = "FS" /\ Called("clear")) =>
    /\ rootdir
    /\ \A p \in CachePaths : files[p] = 0
    /\ \A key \in Keys, value \in UserPaths :
         files[value] # 0 =>
           LET r == FSCache___setitem__(Disk, key, value)
           IN r.exc = "" /\ FSCache___contains__(r.data, key)

\* C13: in every variant items() raises nothing and yields one (key, value)
\* pair for each entry of the cache and nothing else: every pair is an entry
\* with its value, every entry has a pair, and no key comes twice.
C13_ItemsOfEveryVariant ==
  Called("items") =>
    /\ ev.exc = ""
    /\ ev.ret.t = "items"
    /\ \A i \in 1..Len(ev.ret.x) :
         LET g == Fetch(ev.inst, ev.ret.x[i][1], None)
         IN Has(ev.inst, ev.ret.x[i][1]) /\ g.ret = ev.ret.x[i][2]
    /\ \A key \in Keys :
         Has(ev.inst, key) => Cardinality({i \in 1..Len(ev.ret.x) : ev.ret.x[i][1] = key}) = 1

\* C14: a write() of a JsonCache right after a write() of the same object, and
\* the exit-time flush right after a write() of the object whose handler runs
\* last, leave the document exactly as the first write left it.
C14_FlushIdempotent ==
  [][ (variant = "Json" /\ ev.op = "write" /\ ev.exc = "") =>
        /\ (ev'.op = "write" /\ ev'.inst = ev.inst) => (doc' = doc /\ ev'.exc = "")
        /\ (ev'.op = "exit" /\ atexit[1] = ev.inst) => doc' = doc ]_vars

\* A cache with entries was written twice in a row.
C14_Witness ==
  /\ variant = "Json" /\ ev.op = "write" /\ ev.exc = "" /\ ev.c = ev.inst
  /\ DOMAIN mem[ev.inst].m # {}
  /\ doc.kind = "object" /\ Len(doc.pairs) > 0

\* Python's ==: dicts are equal when they have the same fields with the same values.
StructEq(k1, k2) ==
  /\ k1.t = k2.t
  /\ IF k1.t = "dict"
     THEN {k1.x[i] : i \in 1..Len(k1.x)} = {k2.x[i] : i \in 1..Len(k2.x)}
     ELSE k1.x = k2.x

\* C15: two FSCache keys that are equal but list their fields in different
\* orders have one cache path, in every state and so in every call and every
\* FSCache object on the root: contains, get and delete answer alike for both,
\* and an entry set (deleted) under one is there (gone) under the other.
C15_Canonical ==
  variant = "FS" =>
    /\ \A k1, k2 \in FSKeys :
         StructEq(k1, k2) =>
           /\ FSCache__keypath(k1) = FSCache__keypath(k2)
           /\ FSCache___contains__(Disk, k1) = FSCache___contains__(Disk, k2)
           /\ FSCache_get(Disk, k1, None) = FSCache_get(Disk, k2, None)
           /\ FSCache___delitem__(Disk, k1) = FSCache___delitem__(Disk, k2)
    /\ (Called("__setitem__") /\ ev.exc = "") =>
         \A k2 \in FSKeys :
           StructEq(ev.key, k2) =>
             /\ FSCache___contains__(Disk, k2)
             /\ FSCache_get(Disk, k2, None).ret = PyPath(FSCache__keypath(ev.key))
    /\ (Called("__delitem__") /\ ev.exc = "") =>
         \A k2 \in FSKeys : StructEq(ev.key, k2) => ~FSCache___contains__(Disk, k2)

\* An entry was set under {"a": 1, "b": 2} and is in the cache under {"b": 2, "a": 1}.
C15_Witness ==
  /\ variant = "FS" /\ Called("__setitem__") /\ ev.exc = "" /\ ev.key = KeyAB
  /\ KeyAB # KeyBA
  /\ FSCache___contains__(Disk, KeyBA)

\* C16: no get, set, delete, clear, contains or items of a JsonCache changes
\* the document: of the program's steps only write() and the exit-time flush
\* do; and the _data of an object changes by its own set, delete and clear
\* only, whatever becomes of the file after the object was constructed.
C16_WeakDurability ==
  [][ variant = "Json" =>
        /\ doc' # doc => ev'.op \in {"write", "exit", "ext_write_doc"}
        /\ ev'.op \in {"get", "__getitem__", "__setitem__", "__delitem__",
                       "__contains__", "clear", "items"} => doc' = doc
        /\ \A i \in 1..Len(mem) :
             (i <= Len(mem') /\ mem'[i] # mem[i]) =>
               ev'.inst = i /\ ev'.op \in {"__setitem__", "__delitem__", "clear"} ]_vars

\* "1" was set to a value in a JsonCache, and the document still holds "1" with another.
C16_Witness ==
  /\ variant = "Json" /\ Called("__setitem__") /\ ev.exc = "" /\ ev.key = PyStr("1")
  /\ doc.kind = "object" /\ Len(doc.pairs) = 1
  /\ doc.pairs[1][1] = "1" /\ doc.pairs[1][2] # ev.arg

\* C17: in every variant a contains(k) raises nothing and changes nothing, no
\* entry of any cache and no file, and answers whether k is in the cache in
\* the state it is called in, which is the state it leaves: so a repeated
\* call answers the same.
C17_ContainsPure ==
  [][ ev'.op = "__contains__" =>
        /\ UNCHANGED <<mem, atexit, doc, rootdir, files, fsc, proc>>
        /\ ev'.exc = ""
        /\ ev'.ret = Has(ev'.inst, ev'.key)
        /\ ev'.ret = HasIn(mem', Disk', ev'.inst, ev'.key) ]_vars

\* contains(k) has answered True and k is in the cache.
C17_Witness == Called("__contains__") /\ ev.ret = TRUE /\ Has(ev.inst, ev.key)

\* C18: whatever another actor does to the files between the test and the
\* lookup of an FSCache.get(k, d), the get raises no KeyError: it returns the
\* cache path of k or d.
C18_GetNeverRaises ==
  (variant = "FS" /\ ev.op = "get") =>
    /\ ev.exc # "KeyError"
    /\ ev.ret \in {PyPath(FSCache__keypath(ev.key)), ev.arg}

\* C19: when the process is killed, between two calls or inside a write(), a
\* JsonCache constructed on the path afterwards loads, and holds what one
\* constructed before the kill would have: the content of the last flush that
\* completed, or of the document that was there (or, killed inside a write()
\* that had written all its text, the content of that flush).
C19_CrashKeepsLastFlush ==
  [][ (variant = "Json" /\ ev'.op \in {"crash", "crash_in_write"}) =>
        LET after == JsonCache___init__(doc', None)
        IN /\ after.exc = ""
           /\ \/ after.data = JsonCache___init__(doc, None).data
              \/ ev'.op = "crash_in_write" /\ doc' = JsonCache_write(mem[ev'.inst]).doc ]_vars

\* C20: right after a write() that returned, the document decodes to exactly
\* the entries the JsonCache holds: nothing of an earlier document that is no
\* longer in memory, and {"1": 1} after set("1", 1) on a new path.
C20_FlushIsContent ==
  (variant = "Json" /\ Called("write") /\ ev.exc = "") =>
    /\ doc.kind = "object"
    /\ json_load(doc).exc = ""
    /\ json_load(doc).data = mem[ev.inst]

\* C21: with nobody but the cache at the directory, every file in it is the file
\* of a key that is in the cache, at the path named by the digest of the sorted
\* dump of that key, and in a directory that exists; every key in the cache has
\* one such file; nothing else is there: after a delete(k) no file is left at
\* the path of k, after a set(k, p) the file there holds what p held.
C21_DirectoryInvariant ==
  variant = "FS" =>
    /\ \A p \in RootPaths :
         files[p] # 0 =>
           /\ rootdir
           /\ \E k \in FSKeys :
                p = fs_path(Root, crypto_sha1(json_dumps(k))) /\ FSCache___contains__(Disk, k)
    /\ \A k \in FSKeys :
         FSCache___contains__(Disk, k) =>
           Cardinality({p \in RootPaths : files[p] # 0 /\ p = FSCache__keypath(k)}) = 1
    /\ (Called("__delitem__") /\ ev.exc = "") => files[FSCache__keypath(ev.key)] = 0
    /\ (Called("__setitem__") /\ ev.exc = "") => files[FSCache__keypath(ev.key)] = ev.c

\* A delete has removed the file of one key while the file of another is in the directory.
C21_Witness ==
  /\ variant = "FS" /\ Called("__delitem__") /\ ev.exc = ""
  /\ files[FSCache__keypath(ev.key)] = 0
  /\ \E k \in FSKeys : FSCache___contains__(Disk, k)

C23_InitKeepsDirectory ==
  [][ (variant = "FS" /\ ev'.op = "__init__") =>
        /\ ev'.exc = ""
        /\ rootdir'
        /\ files' = files
        /\ \A k \in FSKeys :
             /\ FSCache___contains__(Disk', k) = FSCache___contains__(Disk, k)
             /\ FSCache_get(Disk', k, None).ret = FSCache_get(Disk, k, None).ret ]_vars

\* An FSCache was constructed on a directory that holds an entry.
C23_Witness ==
  /\ variant = "FS" /\ Called("__init__") /\ rootdir
  /\ \E k \in FSKeys : FSCache___contains__(Disk, k) /\ files[FSCache__keypath(k)] = MaxVal

\* C24: a TransientCache constructed with a seed holds the entries the seed
\* holds at that time, each key with its value and no other key, and leaves the
\* seed as it is; one constructed without a seed is empty.
C24_SeedIsCopied ==
  [][ (variant = "Transient" /\ ev'.op = "__init__") =>
        /\ ev'.exc = ""
        /\ IF ev'.arg = PyInt(0)
           THEN mem'[ev'.inst] = Dict(EmptyDict)
           ELSE LET s == mem[SeedOf(ev')].m
                    r == mem'[ev'.inst].m
                IN /\ DOMAIN r = DOMAIN s
                   /\ \A k \in DOMAIN s : r[k] = s[k]
                   /\ mem'[SeedOf(ev')] = mem[SeedOf(ev')] ]_vars

\* A TransientCache was constructed from a seed that holds 1 and "1" with different values.
C24_Witness ==
  /\ variant = "Transient" /\ Called("__init__") /\ ev.arg # PyInt(0) /\ ev.exc = ""
  /\ DOMAIN mem[ev.inst].m = Keys
  /\ mem[ev.inst].m[PyInt(1)] # mem[ev.inst].m[PyStr("1")]
  /\ mem[ev.inst] = mem[SeedOf(ev)]

\* C25: when a process with several JsonCache objects on the path exits in an
\* orderly way, the handlers run in reverse order of construction and each
\* overwrites the whole document: the document left is the one a write() of
\* the first constructed object alone leaves; with string keys it decodes to
\* the content of that object, so what only a later object holds is not in it.
C25_FirstConstructedWins ==
  [][ (variant = "Json" /\ ev'.op = "exit" /\ Len(atexit) >= 2) =>
        LET first == atexit[1]
        IN /\ first = 1
           /\ doc' = JsonCache_write(mem[first]).doc
           /\ (\A k \in DOMAIN mem[first].m : k.t = "str") =>
                /\ doc'.kind = "object"
                /\ json_load(doc').data = mem[first] ]_vars

\* A process has exited with two JsonCache objects, the second holding "1",
\* the first not: the document decodes to the content of the first.
C25_Witness ==
  /\ variant = "Json" /\ proc = "exited" /\ ev.op = "exit" /\ Len(mem) = 2 /\ Len(atexit) = 2
  /\ PyStr("1") \in DOMAIN mem[2].m
  /\ DOMAIN mem[1].m = {}
  /\ doc.kind = "object" /\ json_load(doc).data = mem[1]

\* C26: a JsonCache construction that raises, the file being no JSON, leaves
\* the file as it is and registers no exit handler: every handler is that of a
\* constructed object, and an orderly exit of a process in which no
\* construction succeeded leaves the file as it is.
C26_FailedInitInert ==
  /\ [](variant = "Json" => /\ Len(atexit) = Len(mem)
                            /\ \A j \in 1..Len(atexit) : atexit[j] = j)
  /\ [][ variant = "Json" =>
           /\ (ev'.op = "__init__" /\ ev'.exc # "") => UNCHANGED <<doc, atexit, mem>>
           /\ (ev'.op = "__init__" /\ doc.kind = "invalid") => ev'.exc = "ValueError"
           /\ (ev'.op = "exit" /\ mem = <<>>) => doc' = doc ]_vars

\* A construction on a file that is no JSON has raised ValueError in a process
\* with no other JsonCache: the file is as it was and no handler is registered.
C26_Witness ==
  /\ variant = "Json" /\ ev.op = "__init__" /\ ev.exc = "ValueError"
  /\ doc = Invalid /\ atexit = <<>> /\ mem = <<>>

\* C27: two FSCache keys that are not equal have different cache paths, so a
\* set under one key changes for no other key whether it is in the cache.
C27_PathInjective ==
  [][ (variant = "FS" /\ ev'.op = "__setitem__" /\ ev'.exc = "") =>
        \A k2 \in FSKeys :
          ~StructEq(ev'.key, k2) =>
            /\ FSCache__keypath(k2) # FSCache__keypath(ev'.key)
            /\ FSCache___contains__(Disk', k2) = FSCache___contains__(Disk, k2) ]_vars

====
